---- MODULE Spec2Model ----
(***************************************************************************)
(* Model of src/01_CARE/transforms.py: normalize / denormalize, the        *)
(* rotate-and-flip primitive _flip_and_rotate and the seeded paired         *)
(* augmentation augment_batch.                                              *)
(*                                                                          *)
(* Arrays are modelled as numpy models them: an array object is a view      *)
(* (buffer, shape, strides, offset) onto a flat storage buffer held in the  *)
(* heap.  np.rot90 and np.flip return views (strides and offset change,     *)
(* the buffer is shared); ndarray.copy() allocates a fresh C-ordered        *)
(* buffer.                                                                  *)
(***************************************************************************)
EXTENDS Integers, Sequences, FiniteSets, TLC

VARIABLES
    heap,     \* storage buffers, by buffer id
    x,        \* the array the last primitive call was given
    y,        \* the array the last primitive call returned
    call,     \* the last primitive call: argument, states, result
    trail,    \* the current run of identical successive primitive calls
    op,       \* the last operation
    patch,    \* first argument of augment_batch
    target,   \* second argument of augment_batch
    rng,      \* the generator object of the last augment_batch call
    aug,      \* the last augment_batch call: seed, drawn states, results
    calls,    \* all augment_batch calls so far, oldest first
    arith,    \* the arithmetic of the element type: "exact" or "float"
    pixels,   \* the array given to normalize
    mean,     \* the mean given to normalize and denormalize
    std,      \* the std given to normalize and denormalize
    normalized,  \* normalize(pixels, mean, std)
    restored     \* denormalize(normalized, mean, std)

primVars == <<x, y, call, trail>>
augVars == <<patch, target, rng, aug, calls>>
normVars == <<arith, pixels, mean, std, normalized, restored>>
vars == <<heap, x, y, call, trail, op, patch, target, rng, aug, calls,
          arith, pixels, mean, std, normalized, restored>>

(***************************************************************************)
(* Bounds of the model.                                                     *)
(***************************************************************************)
\* largest length of a spatial axis (H, W) of an input array
MaxSide == 3
\* largest length of the leading (channel) axis of a 3-D input array
MaxLead == 2
\* longest run of identical successive primitive calls that is tracked
MaxChain == 4
\* largest seed passed to augment_batch
MaxSeed == 4
\* number of augment_batch calls in a behaviour
MaxCalls == 3
\* largest numerator of an element, a mean or a std given to normalize
MaxVal == 3
\* bits of the significand of the floating-point element type (the width
\* is reduced: numpy's float64 has 53)
Prec == 3

(***************************************************************************)
(* Index arithmetic on shapes (0-based indices, C order).                   *)
(***************************************************************************)
\* the sequence f[1], ..., f[n]
RECURSIVE Tuple(_, _)
Tuple(f, n) == IF n = 0 THEN <<>> ELSE Append(Tuple(f, n - 1), f[n])

RECURSIVE Size(_)
Size(shape) == IF shape = <<>> THEN 1 ELSE Head(shape) * Size(Tail(shape))

\* strides, in elements, of a C-contiguous array of the given shape
CStrides(shape) ==
    Tuple([i \in 1..Len(shape) |-> Size(SubSeq(shape, i + 1, Len(shape)))],
          Len(shape))

RECURSIVE Dot(_, _)
Dot(idx, strides) ==
    IF idx = <<>> THEN 0
    ELSE Head(idx) * Head(strides) + Dot(Tail(idx), Tail(strides))

\* the index tuple of the n-th element (n counted from 0) in C order
Unravel(n, shape) ==
    Tuple([i \in 1..Len(shape) |->
             (n \div Size(SubSeq(shape, i + 1, Len(shape)))) % shape[i]],
          Len(shape))

\* inverse of Unravel
Ravel(idx, shape) == Dot(idx, CStrides(shape))

(***************************************************************************)
(* Array objects and the heap.                                              *)
(***************************************************************************)
NoArray == [buf |-> 0, shape |-> <<>>, strides |-> <<>>, offset |-> 0]

ndim(a) == Len(a.shape)

\* a[idx]
GetItem(h, a, idx) == h[a.buf][1 + a.offset + Dot(idx, a.strides)]

\* a[idx] = v, in place
SetItem(h, a, idx, v) ==
    [h EXCEPT ![a.buf][1 + a.offset + Dot(idx, a.strides)] = v]

\* the elements of the sub-array at storage position pos, from index i of the
\* given axis on, in C order
RECURSIVE Elements(_, _, _, _, _)
Elements(buffer, a, axis, i, pos) ==
    IF axis > ndim(a) THEN <<buffer[pos]>>
    ELSE IF i = a.shape[axis] THEN <<>>
    ELSE Elements(buffer, a, axis + 1, 0, pos + i * a.strides[axis])
         \o Elements(buffer, a, axis, i + 1, pos)

\* the logical content of an array: its shape and its elements in C order
Content(h, a) ==
    [shape |-> a.shape, data |-> Elements(h[a.buf], a, 1, 0, 1 + a.offset)]

NoContent == [shape |-> <<>>, data |-> <<>>]

\* a negative axis counts from the end; the result is a 1-based position
NormAxis(a, axis) == IF axis < 0 THEN axis + ndim(a) + 1 ELSE axis + 1

\* smallest buffer id not in use
FreshBuf(h) == CHOOSE b \in 1..(Cardinality(DOMAIN h) + 1) : b \notin DOMAIN h

\* np.flip(m, axis): a view with the axis reversed
flip(m, axis) ==
    LET ax == NormAxis(m, axis)
    IN  [m EXCEPT !.strides[ax] = -(m.strides[ax]),
                  !.offset = m.offset + (m.shape[ax] - 1) * m.strides[ax]]

\* the bug of moving the last axis to the front (np.moveaxis) instead of
\* exchanging the two axes named by axes_list
transpose_moveaxis(m, axes_list) ==
    LET n == ndim(m)
        roll == [i \in 1..n |-> IF i = 1 THEN n ELSE i - 1]
    IN  [m EXCEPT !.shape   = Tuple([i \in 1..n |-> m.shape[roll[i]]], n),
                  !.strides = Tuple([i \in 1..n |-> m.strides[roll[i]]], n)]

\* np.transpose(m, axes_list): a view with the axes permuted
transpose(m, axes_list) ==
    [m EXCEPT
       !.shape   = Tuple([i \in 1..ndim(m) |-> m.shape[axes_list[i]]], ndim(m)),
       !.strides = Tuple([i \in 1..ndim(m) |-> m.strides[axes_list[i]]], ndim(m))]

Ok(a) == [ok |-> TRUE, arr |-> a]
ValueError == [ok |-> FALSE, arr |-> NoArray]

\* the bug of turning clockwise: the cases k = 1 and k = 3 exchanged
rot90_clockwise(m, k, axes) ==
    LET d == axes[1] - axes[2]
        absd == IF d < 0 THEN -d ELSE d
        kk == k % 4
        a1 == NormAxis(m, axes[1])
        a2 == NormAxis(m, axes[2])
        axes_list == [i \in 1..ndim(m) |->
                        IF i = a1 THEN a2 ELSE IF i = a2 THEN a1 ELSE i]
    IN  IF axes[1] = axes[2] \/ absd = ndim(m) THEN ValueError
        ELSE IF \E i \in 1..2 : axes[i] >= ndim(m) \/ axes[i] < -ndim(m)
        THEN ValueError
        ELSE IF kk = 0 THEN Ok(m)
        ELSE IF kk = 2 THEN Ok(flip(flip(m, axes[1]), axes[2]))
        ELSE IF kk = 3 THEN Ok(transpose(flip(m, axes[2]), axes_list))
        ELSE Ok(flip(transpose(m, axes_list), axes[2]))

\* the bug of reversing an axis where a quarter turn is due: the two axes
\* are never exchanged
rot90_flipping(m, k, axes) ==
    LET d == axes[1] - axes[2]
        absd == IF d < 0 THEN -d ELSE d
        kk == k % 4
    IN  IF axes[1] = axes[2] \/ absd = ndim(m) THEN ValueError
        ELSE IF \E i \in 1..2 : axes[i] >= ndim(m) \/ axes[i] < -ndim(m)
        THEN ValueError
        ELSE IF kk = 0 THEN Ok(m)
        ELSE IF kk = 2 THEN Ok(flip(flip(m, axes[1]), axes[2]))
        ELSE IF kk = 1 THEN Ok(flip(m, axes[2]))
        ELSE Ok(flip(m, axes[1]))

\* np.rot90(m, k, axes)
rot90(m, k, axes) ==
    LET d == axes[1] - axes[2]
        absd == IF d < 0 THEN -d ELSE d
        kk == k % 4
        a1 == NormAxis(m, axes[1])
        a2 == NormAxis(m, axes[2])
        axes_list == [i \in 1..ndim(m) |->
                        IF i = a1 THEN a2 ELSE IF i = a2 THEN a1 ELSE i]
    IN  IF axes[1] = axes[2] \/ absd = ndim(m) THEN ValueError
        ELSE IF \E i \in 1..2 : axes[i] >= ndim(m) \/ axes[i] < -ndim(m)
        THEN ValueError
        ELSE IF kk = 0 THEN Ok(m)
        ELSE IF kk = 2 THEN Ok(flip(flip(m, axes[1]), axes[2]))
        ELSE IF kk = 1 THEN Ok(transpose(flip(m, axes[2]), axes_list))
        ELSE Ok(flip(transpose(m, axes_list), axes[2]))

\* the bug of returning the view itself
copy_view(h, a) == [ok |-> TRUE, heap |-> h, arr |-> a]

\* ndarray.copy(): a fresh C-contiguous buffer holding the view's elements
copy(h, a) ==
    LET b == FreshBuf(h)
    IN  [ok   |-> TRUE,
         heap |-> (b :> Content(h, a).data) @@ h,
         arr  |-> [buf |-> b, shape |-> a.shape,
                   strides |-> CStrides(a.shape), offset |-> 0]]

\* the bug of rejecting states outside 0..3 and 0..1 instead of accepting them
_flip_and_rotate_validating(h, image, rotate_state, flip_state) ==
    LET rotated == rot90(image, rotate_state, <<-2, -1>>)
    IN  IF ~rotated.ok \/ rotate_state \notin 0..3 \/ flip_state \notin 0..1
        THEN [ok |-> FALSE, heap |-> h, arr |-> NoArray]
        ELSE LET flipped == IF flip_state = 1 THEN flip(rotated.arr, -1)
                            ELSE rotated.arr
             IN  copy(h, flipped)

\* the bug of turning once more where the array is to be mirrored
_flip_and_rotate_turning(h, image, rotate_state, flip_state) ==
    LET rotated == rot90(image, rotate_state, <<-2, -1>>)
    IN  IF ~rotated.ok THEN [ok |-> FALSE, heap |-> h, arr |-> NoArray]
        ELSE LET flipped == IF flip_state = 1
                            THEN rot90(rotated.arr, 1, <<-2, -1>>).arr
                            ELSE rotated.arr
             IN  copy(h, flipped)

\* _flip_and_rotate(image, rotate_state, flip_state)
_flip_and_rotate(h, image, rotate_state, flip_state) ==
    LET rotated == rot90(image, rotate_state, <<-2, -1>>)
    IN  IF ~rotated.ok THEN [ok |-> FALSE, heap |-> h, arr |-> NoArray]
        ELSE LET flipped == IF flip_state = 1 THEN flip(rotated.arr, -1)
                            ELSE rotated.arr
             IN  copy(h, flipped)

\* storage that is still referenced by one of the given arrays
Collect(h, roots) == [b \in {a.buf : a \in roots} \cap DOMAIN h |-> h[b]]

(***************************************************************************)
(* Element arithmetic.  An element is a rational number n/d in lowest terms *)
(* with d > 0.  In "exact" arithmetic an operation returns its exact        *)
(* result; in "float" arithmetic it returns the exact result rounded to the *)
(* nearest number with a significand of Prec bits, ties to even, as IEEE    *)
(* arithmetic does (the exponent range is not bounded: no overflow).        *)
(***************************************************************************)
RECURSIVE GCD(_, _)
GCD(a, b) == IF b = 0 THEN a ELSE GCD(b, a % b)

Abs(n) == IF n < 0 THEN -n ELSE n

\* the rational n/d (d # 0) in lowest terms
Q(n, d) ==
    LET g == GCD(Abs(n), Abs(d))
    IN  IF d < 0 THEN [n |-> (-n) \div g, d |-> (-d) \div g]
        ELSE [n |-> n \div g, d |-> d \div g]

QAdd(a, b) == Q(a.n * b.d + b.n * a.d, a.d * b.d)
QSub(a, b) == Q(a.n * b.d - b.n * a.d, a.d * b.d)
QMul(a, b) == Q(a.n * b.n, a.d * b.d)
QDiv(a, b) == Q(a.n * b.d, a.d * b.n)
QAbs(a) == [n |-> Abs(a.n), d |-> a.d]
QLe(a, b) == a.n * b.d <= b.n * a.d

\* n/d scaled by a power of two 2^(-e) into [2^(Prec-1), 2^Prec)
RECURSIVE Scale(_, _, _)
Scale(n, d, e) ==
    IF n >= (2 ^ Prec) * d THEN Scale(n, 2 * d, e + 1)
    ELSE IF n < (2 ^ (Prec - 1)) * d THEN Scale(2 * n, d, e - 1)
    ELSE [n |-> n, d |-> d, e |-> e]

\* the number with a significand of Prec bits nearest to a, ties to even
Round(a) ==
    IF a.n = 0 THEN a
    ELSE LET sc == Scale(Abs(a.n), a.d, 0)
             m == sc.n \div sc.d
             rest == sc.n % sc.d
             up == 2 * rest > sc.d \/ (2 * rest = sc.d /\ m % 2 = 1)
             sig == (IF up THEN m + 1 ELSE m) * (IF a.n < 0 THEN -1 ELSE 1)
         IN  IF sc.e >= 0 THEN Q(sig * (2 ^ sc.e), 1)
             ELSE Q(sig, 2 ^ (-sc.e))

\* the result of an operation as the element type holds it
Fl(a) == IF arith = "float" THEN Round(a) ELSE a

Add(a, b) == Fl(QAdd(a, b))
Sub(a, b) == Fl(QSub(a, b))
Mul(a, b) == Fl(QMul(a, b))
Div(a, b) == Fl(QDiv(a, b))

(***************************************************************************)
(* normalize and denormalize, element by element (the scalars broadcast).   *)
(***************************************************************************)
\* normalize(image, mean, std)
normalize(img, mu, sigma) ==
    [shape |-> img.shape,
     data  |-> Tuple([i \in 1..Len(img.data) |->
                         Div(Sub(img.data[i], mu), sigma)], Len(img.data))]

\* the bug of adding the std and multiplying by the mean
denormalize_swapped(img, mu, sigma) ==
    [shape |-> img.shape,
     data  |-> Tuple([i \in 1..Len(img.data) |->
                         Add(Mul(img.data[i], mu), sigma)], Len(img.data))]

\* denormalize(image, mean, std)
denormalize(img, mu, sigma) ==
    [shape |-> img.shape,
     data  |-> Tuple([i \in 1..Len(img.data) |->
                         Add(Mul(img.data[i], sigma), mu)], Len(img.data))]

\* before any call of normalize
NoNorm ==
    /\ arith = "exact"
    /\ pixels = NoContent /\ normalized = NoContent /\ restored = NoContent
    /\ mean = Q(0, 1) /\ std = Q(1, 1)

(***************************************************************************)
(* The generator behind np.random.default_rng(seed): a seeded bit generator *)
(* whose whole state is a function of the seed, advanced by each draw.      *)
(* The generator is modelled at reduced width: a 64-bit output word becomes *)
(* a word of 2 * HalfBits bits and a 32-bit draw one of HalfBits bits; the  *)
(* seeding and the state transition are a linear congruential stand-in for  *)
(* SeedSequence and PCG64, so the value drawn for a given seed is not the   *)
(* value numpy draws.  The buffering of 32-bit draws and the bounded-integer*)
(* algorithm (Lemire's multiply-shift with rejection) are numpy's.          *)
(***************************************************************************)
HalfBits == 4
Half == 2 ^ HalfBits
Word == Half * Half
\* multiplier and increment of the state transition, and of the seeding
Multiplier == 5
Increment == 61
SeedMultiplier == 57
SeedIncrement == 29

NoGenerator == [state |-> 0, has_uint32 |-> FALSE, uinteger |-> 0]

\* the bug of one process-wide generator, seeded by the first call only
default_rng_shared(seed) ==
    IF seed < 0 THEN [ok |-> FALSE, gen |-> NoGenerator]
    ELSE IF rng # NoGenerator THEN [ok |-> TRUE, gen |-> rng]
    ELSE [ok |-> TRUE,
          gen |-> [state |-> (seed * SeedMultiplier + SeedIncrement) % Word,
                   has_uint32 |-> FALSE, uinteger |-> 0]]

\* np.random.default_rng(seed): a fresh generator whose state is derived
\* from the seed; a negative seed is rejected with ValueError
default_rng(seed) ==
    IF seed < 0 THEN [ok |-> FALSE, gen |-> NoGenerator]
    ELSE [ok |-> TRUE,
          gen |-> [state |-> (seed * SeedMultiplier + SeedIncrement) % Word,
                   has_uint32 |-> FALSE, uinteger |-> 0]]

\* one full output word; the state advances
next_uint64(g) ==
    LET s == (g.state * Multiplier + Increment) % Word
    IN  [value |-> s, gen |-> [g EXCEPT !.state = s]]

\* one half-word draw: the low half of a fresh word, whose high half is
\* kept for the next draw
next_uint32(g) ==
    IF g.has_uint32
    THEN [value |-> g.uinteger, gen |-> [g EXCEPT !.has_uint32 = FALSE]]
    ELSE LET n == next_uint64(g)
         IN  [value |-> n.value % Half,
              gen |-> [n.gen EXCEPT !.has_uint32 = TRUE,
                                    !.uinteger = n.value \div Half]]

\* draws until the low half of draw * rng_excl reaches the threshold
RECURSIVE lemire_reject(_, _, _)
lemire_reject(g, rng_excl, threshold) ==
    LET d == next_uint32(g)
        m == d.value * rng_excl
    IN  IF m % Half < threshold THEN lemire_reject(d.gen, rng_excl, threshold)
        ELSE [value |-> m \div Half, gen |-> d.gen]

\* a uniform integer in 0..bound (inclusive) by Lemire's method
bounded_lemire_uint32(g, bound) ==
    LET rng_excl == bound + 1
        d == next_uint32(g)
        m == d.value * rng_excl
    IN  IF m % Half < rng_excl /\ m % Half < ((Half - 1) - bound) % rng_excl
        THEN lemire_reject(d.gen, rng_excl, ((Half - 1) - bound) % rng_excl)
        ELSE [value |-> m \div Half, gen |-> d.gen]

\* the bug of an inclusive upper bound (endpoint=True)
integers_endpoint(g, low, high) ==
    IF high - low = 0 THEN [value |-> low, gen |-> g]
    ELSE LET d == bounded_lemire_uint32(g, high - low)
         IN  [value |-> low + d.value, gen |-> d.gen]

\* Generator.integers(low, high): a uniform integer in low..high-1
integers(g, low, high) ==
    IF high - 1 - low = 0 THEN [value |-> low, gen |-> g]
    ELSE LET d == bounded_lemire_uint32(g, high - 1 - low)
         IN  [value |-> low + d.value, gen |-> d.gen]

(***************************************************************************)
(* augment_batch.                                                           *)
(***************************************************************************)
Raised(h, g) ==
    [ok |-> FALSE, drawn |-> FALSE, rotate_state |-> 0, flip_state |-> 0,
     heap |-> h, gen |-> g, first |-> NoArray, second |-> NoArray]

\* the bug of drawing a new pair of states for the target
augment_batch_redrawing(h, patch_, target_, seed) ==
    LET made == default_rng(seed)
        d1 == integers(made.gen, 0, 4)
        d2 == integers(d1.gen, 0, 2)
        d3 == integers(d2.gen, 0, 4)
        d4 == integers(d3.gen, 0, 2)
        r1 == _flip_and_rotate(h, patch_, d1.value, d2.value)
        r2 == _flip_and_rotate(r1.heap, target_, d3.value, d4.value)
    IN  IF ~made.ok THEN Raised(h, NoGenerator)
        ELSE IF ~r1.ok \/ ~r2.ok
        THEN [Raised(h, d4.gen) EXCEPT !.drawn = TRUE,
                !.rotate_state = d1.value, !.flip_state = d2.value]
        ELSE [ok |-> TRUE, drawn |-> TRUE,
              rotate_state |-> d1.value, flip_state |-> d2.value,
              heap |-> r2.heap, gen |-> d4.gen,
              first |-> r1.arr, second |-> r2.arr]

\* the bug of rejecting a pair whose last two axes differ in length
augment_batch_checking(h, patch_, target_, seed) ==
    LET made == default_rng(seed)
        d1 == integers(made.gen, 0, 4)
        d2 == integers(d1.gen, 0, 2)
        r1 == _flip_and_rotate(h, patch_, d1.value, d2.value)
        r2 == _flip_and_rotate(r1.heap, target_, d1.value, d2.value)
        np == ndim(patch_)
        nt == ndim(target_)
    IN  IF ~made.ok THEN Raised(h, NoGenerator)
        ELSE IF \/ ~r1.ok \/ ~r2.ok
                \/ patch_.shape[np] # target_.shape[nt]
                \/ patch_.shape[np - 1] # target_.shape[nt - 1]
        THEN [Raised(h, d2.gen) EXCEPT !.drawn = TRUE,
                !.rotate_state = d1.value, !.flip_state = d2.value]
        ELSE [ok |-> TRUE, drawn |-> TRUE,
              rotate_state |-> d1.value, flip_state |-> d2.value,
              heap |-> r2.heap, gen |-> d2.gen,
              first |-> r1.arr, second |-> r2.arr]

\* augment_batch(patch, target, seed)
augment_batch(h, patch_, target_, seed) ==
    LET made == default_rng(seed)
        d1 == integers(made.gen, 0, 4)
        d2 == integers(d1.gen, 0, 2)
        r1 == _flip_and_rotate(h, patch_, d1.value, d2.value)
        r2 == _flip_and_rotate(r1.heap, target_, d1.value, d2.value)
    IN  IF ~made.ok THEN Raised(h, NoGenerator)
        ELSE IF ~r1.ok \/ ~r2.ok
        THEN [Raised(h, d2.gen) EXCEPT !.drawn = TRUE,
                !.rotate_state = d1.value, !.flip_state = d2.value]
        ELSE [ok |-> TRUE, drawn |-> TRUE,
              rotate_state |-> d1.value, flip_state |-> d2.value,
              heap |-> r2.heap, gen |-> d2.gen,
              first |-> r1.arr, second |-> r2.arr]

\* the record of a call, before any call
NoAug == [seed |-> 0, ok |-> FALSE, drawn |-> FALSE,
          rotate_state |-> 0, flip_state |-> 0,
          first |-> NoContent, second |-> NoContent]

(***************************************************************************)
(* Input arrays.                                                            *)
(***************************************************************************)
Shapes ==
    {<<w>> : w \in 1..MaxSide}
    \cup {<<hh, w>> : hh \in 1..MaxSide, w \in 1..MaxSide}
    \cup {<<MaxLead, hh, w>> : hh \in 1..MaxSide, w \in 1..MaxSide}

\* index map: pairwise distinct values base, base+1, ... in C order
IndexMap(shape, base) ==
    [shape |-> shape,
     data  |-> Tuple([n \in 1..Size(shape) |-> base + n - 1], Size(shape))]

\* an array with repeated values
Striped(shape) ==
    [shape |-> shape,
     data  |-> Tuple([n \in 1..Size(shape) |-> 1 + (n % 2)], Size(shape))]

InputContents ==
    {IndexMap(s, 1) : s \in Shapes}
    \cup {IndexMap(<<2, 2>>, 5), Striped(<<2, 2>>), Striped(<<2, 3>>)}

\* a freshly allocated C-contiguous array with the given content
NewArray(b, c) ==
    [buf |-> b, shape |-> c.shape, strides |-> CStrides(c.shape), offset |-> 0]

\* strides, in elements, of a Fortran-contiguous array of the given shape
FStrides(shape) ==
    Tuple([i \in 1..Len(shape) |-> Size(SubSeq(shape, 1, i - 1))], Len(shape))

\* the storage of a Fortran-contiguous array with the given content
FStorage(c) ==
    LET fs == FStrides(c.shape)
        idx(p) == [i \in 1..Len(c.shape) |-> (p \div fs[i]) % c.shape[i]]
    IN  Tuple([k \in 1..Size(c.shape) |-> c.data[1 + Ravel(idx(k - 1), c.shape)]],
              Size(c.shape))

\* an array with the given content that is not C-contiguous
NewArrayF(b, c) ==
    [buf |-> b, shape |-> c.shape, strides |-> FStrides(c.shape), offset |-> 0]

Indices(a) == {Unravel(n, a.shape) : n \in 0..(Size(a.shape) - 1)}

\* value stored by an in-place write: differs from every input value
WriteVal == 0

(***************************************************************************)
(* Calls of the primitive, one after the other, each applied to the         *)
(* previous result, interleaved with in-place writes.                       *)
(***************************************************************************)
RotateArgs == {-1, 0, 1, 2, 3, 5}
FlipArgs == 0..2

NoCall == [image |-> NoContent, rotate_state |-> 0, flip_state |-> 0,
           ok |-> TRUE, ret |-> NoContent]

InitPrim ==
    /\ \E c \in InputContents :
          /\ \/ heap = (1 :> c.data) /\ x = NewArray(1, c)
             \/ heap = (1 :> FStorage(c)) /\ x = NewArrayF(1, c)
          /\ trail = [orig |-> c, rotate_state |-> 0, flip_state |-> 0, n |-> 0]
    /\ y = NoArray
    /\ call = NoCall
    /\ op = "init"
    /\ patch = NoArray /\ target = NoArray
    /\ rng = NoGenerator /\ aug = NoAug /\ calls = <<>>
    /\ NoNorm

\* y = _flip_and_rotate(image, rotate_state, flip_state), where image is the
\* previous result if there is one and the initial array otherwise; the
\* array the previous call was given is no longer referenced
Apply(rotate_state, flip_state) ==
    \E image \in {IF y = NoArray THEN x ELSE y} :
    \E r \in {_flip_and_rotate(Collect(heap, {image}), image,
                               rotate_state, flip_state)} :
    \E before \in {Content(heap, image)} :
        /\ op \in {"init", "call"}
        /\ x' = image
        /\ y' = r.arr
        /\ heap' = r.heap
        /\ call' = [image |-> before,
                    rotate_state |-> rotate_state, flip_state |-> flip_state,
                    ok |-> r.ok,
                    ret |-> IF r.ok THEN Content(r.heap, r.arr) ELSE NoContent]
        /\ trail' = IF /\ trail.n > 0
                       /\ trail.n < MaxChain
                       /\ trail.rotate_state = rotate_state
                       /\ trail.flip_state = flip_state
                    THEN [trail EXCEPT !.n = @ + 1]
                    ELSE [orig |-> before,
                          rotate_state |-> rotate_state,
                          flip_state |-> flip_state, n |-> 1]
        /\ op' = "call"
        /\ UNCHANGED <<augVars, normVars>>

NextPrim == \E rs \in RotateArgs, fs \in FlipArgs : Apply(rs, fs)

SpecPrim == InitPrim /\ [][NextPrim]_vars

(***************************************************************************)
(* One call of the primitive followed by an in-place write to an element    *)
(* of its result or of its argument.                                        *)
(***************************************************************************)
\* the first call of a behaviour
FirstCall(rotate_state, flip_state) ==
    /\ op = "init"
    /\ Apply(rotate_state, flip_state)

\* y[idx] = WriteVal
WriteOutput(idx) ==
    /\ op = "call"
    /\ y # NoArray
    /\ heap' = SetItem(heap, y, idx, WriteVal)
    /\ op' = "write_output"
    /\ UNCHANGED <<x, y, call, trail>>
    /\ UNCHANGED <<augVars, normVars>>

\* x[idx] = WriteVal
WriteInput(idx) ==
    /\ op = "call"
    /\ y # NoArray
    /\ heap' = SetItem(heap, x, idx, WriteVal)
    /\ op' = "write_input"
    /\ UNCHANGED <<x, y, call, trail>>
    /\ UNCHANGED <<augVars, normVars>>

NextAlias ==
    \/ \E rs \in RotateArgs, fs \in FlipArgs : FirstCall(rs, fs)
    \/ \E idx \in Indices(y) : WriteOutput(idx)
    \/ \E idx \in Indices(x) : WriteInput(idx)

SpecAlias == InitPrim /\ [][NextAlias]_vars

(***************************************************************************)
(* Calls of augment_batch on one pair of arrays, with any seeds in any      *)
(* order.                                                                   *)
(***************************************************************************)
Seeds == -1..MaxSeed

\* the last two axis lengths exchanged
Swapped(shape) ==
    LET n == Len(shape)
    IN  IF n < 2 THEN shape
        ELSE [shape EXCEPT ![n - 1] = shape[n], ![n] = shape[n - 1]]

\* shapes of the targets paired with a patch of the given shape: the same
\* shape, the same plane without or with another channel axis, and planes
\* of other side lengths
TargetShapes(shape) ==
    {shape, Swapped(shape), <<2, 3>>}
    \cup (IF Len(shape) = 3 THEN {Tail(shape)} ELSE {})

InitAug ==
    /\ \E s \in Shapes :
          /\ patch = NewArray(1, IndexMap(s, 1))
          /\ \/ /\ target = patch
                /\ heap = (1 :> IndexMap(s, 1).data)
             \/ \E t \in TargetShapes(s) :
                   /\ target = NewArray(2, IndexMap(t, 5))
                   /\ heap = (1 :> IndexMap(s, 1).data) @@ (2 :> IndexMap(t, 5).data)
    /\ x = NoArray /\ y = NoArray
    /\ call = NoCall
    /\ trail = [orig |-> NoContent, rotate_state |-> 0, flip_state |-> 0, n |-> 0]
    /\ op = "init"
    /\ rng = NoGenerator /\ aug = NoAug /\ calls = <<>>
    /\ NoNorm

\* augment_batch(patch, target, seed); the arrays an earlier call returned
\* are no longer referenced
AugmentBatch(seed) ==
    \E r \in {augment_batch(heap, patch, target, seed)} :
    \E rec \in {[seed |-> seed, ok |-> r.ok, drawn |-> r.drawn,
                 rotate_state |-> r.rotate_state, flip_state |-> r.flip_state,
                 first  |-> IF r.ok THEN Content(r.heap, r.first) ELSE NoContent,
                 second |-> IF r.ok THEN Content(r.heap, r.second) ELSE NoContent]} :
        /\ Len(calls) < MaxCalls
        /\ aug' = rec
        /\ calls' = Append(calls, rec)
        /\ rng' = r.gen
        /\ heap' = Collect(r.heap, {patch, target})
        /\ op' = "augment"
        /\ UNCHANGED <<patch, target>>
        /\ UNCHANGED <<primVars, normVars>>

NextAug == \E seed \in Seeds : AugmentBatch(seed)

SpecAug == InitAug /\ [][NextAug]_vars

(***************************************************************************)
(* normalize followed by denormalize with the same mean and std.            *)
(***************************************************************************)
\* whole and half numbers up to MaxVal in size: all held exactly by the
\* element type
Scalars == {Q(n, d) : n \in -MaxVal..MaxVal, d \in {1, 2}}

InitNorm ==
    /\ arith \in {"exact", "float"}
    /\ \E a \in Scalars, b \in {Q(0, 1), Q(MaxVal, 1)} :
          pixels = [shape |-> <<1, 2>>, data |-> <<a, b>>]
    /\ mean \in Scalars
    /\ std \in Scalars \ {Q(0, 1)}
    /\ normalized = NoContent /\ restored = NoContent
    /\ heap = <<>>
    /\ x = NoArray /\ y = NoArray
    /\ call = NoCall
    /\ trail = [orig |-> NoContent, rotate_state |-> 0, flip_state |-> 0, n |-> 0]
    /\ op = "init"
    /\ patch = NoArray /\ target = NoArray
    /\ rng = NoGenerator /\ aug = NoAug /\ calls = <<>>

\* normalized = normalize(pixels, mean, std)
Normalize ==
    /\ op = "init"
    /\ normalized' = normalize(pixels, mean, std)
    /\ op' = "normalize"
    /\ UNCHANGED <<arith, pixels, mean, std, restored>>
    /\ UNCHANGED <<heap, primVars, augVars>>

\* restored = denormalize(normalized, mean, std)
Denormalize ==
    /\ op = "normalize"
    /\ restored' = denormalize(normalized, mean, std)
    /\ op' = "denormalize"
    /\ UNCHANGED <<arith, pixels, mean, std, normalized>>
    /\ UNCHANGED <<heap, primVars, augVars>>

NextNorm == Normalize \/ Denormalize

SpecNorm == InitNorm /\ [][NextNorm]_vars

\* the rounding tolerance of the round trip: 5 units of roundoff (2^-Prec)
\* of |x| + |mean|
Tolerance(v) == QMul(Q(5, 2 ^ Prec), QAdd(QAbs(v), QAbs(mean)))

\* C9: for std # 0, denormalize(normalize(x, mean, std), mean, std) has the
\* shape of x and equals x element by element: exactly in exact arithmetic,
\* within the rounding tolerance in floating point.
C9_RoundTrip ==
    op = "denormalize" =>
        /\ restored.shape = pixels.shape
        /\ normalized.shape = pixels.shape
        /\ arith = "exact" => restored = pixels
        /\ \A i \in 1..Len(pixels.data) :
              QLe(QAbs(QSub(restored.data[i], pixels.data[i])),
                  Tolerance(pixels.data[i]))

C9_Witness ==
    /\ op = "denormalize"
    /\ arith = "float"
    /\ std = Q(3, 1)
    /\ normalized # pixels
    /\ restored # pixels

(***************************************************************************)
(* Reference semantics of the primitive, on contents, by index.             *)
(***************************************************************************)
\* the element of a content at an index tuple
Elem(c, idx) == c.data[1 + Ravel(idx, c.shape)]

\* one counter-clockwise quarter turn of every last-two-axes plane:
\* an H x W plane becomes a W x H plane with out[i][j] = in[j][W-1-i]
QuarterTurn(c) ==
    LET n == Len(c.shape)
        H == c.shape[n - 1]
        W == c.shape[n]
        shape == [c.shape EXCEPT ![n - 1] = W, ![n] = H]
        src(idx) == [idx EXCEPT ![n - 1] = idx[n], ![n] = W - 1 - idx[n - 1]]
    IN  [shape |-> shape,
         data  |-> Tuple([k \in 1..Size(shape) |->
                             Elem(c, src(Unravel(k - 1, shape)))], Size(shape))]

\* mirror along the last axis: out[i][j] = in[i][W-1-j]
Mirror(c) ==
    LET n == Len(c.shape)
        W == c.shape[n]
        src(idx) == [idx EXCEPT ![n] = W - 1 - idx[n]]
    IN  [shape |-> c.shape,
         data  |-> Tuple([k \in 1..Size(c.shape) |->
                             Elem(c, src(Unravel(k - 1, c.shape)))], Size(c.shape))]

RECURSIVE Turns(_, _)
Turns(c, k) == IF k = 0 THEN c ELSE QuarterTurn(Turns(c, k - 1))

Reference(c, rotate_state, flip_state) ==
    IF flip_state = 1 THEN Mirror(Turns(c, rotate_state))
    ELSE Turns(c, rotate_state)

Called == call # NoCall
InDomain == call.rotate_state \in 0..3 /\ call.flip_state \in 0..1

\* C3: on an array of at least 2 dimensions, with rotate_state in 0..3 and
\* flip_state in 0..1, _flip_and_rotate returns rotate_state counter-clockwise
\* quarter turns of each last-two-axes plane (out[i][j] = in[j][W-1-i]),
\* mirrored along the last axis only when flip_state = 1; in particular
\* (1, 0) maps [[1,2],[3,4]] to [[2,4],[1,3]] and [[5,6],[7,8]] to
\* [[6,8],[5,7]].
C3_ReferenceSemantics ==
    /\ (Called /\ InDomain /\ Len(call.image.shape) >= 2) =>
          /\ call.ok
          /\ call.ret = Reference(call.image, call.rotate_state, call.flip_state)
    /\ (Called /\ call.rotate_state = 1 /\ call.flip_state = 0) =>
          /\ call.image = [shape |-> <<2, 2>>, data |-> <<1, 2, 3, 4>>]
                => call.ret = [shape |-> <<2, 2>>, data |-> <<2, 4, 1, 3>>]
          /\ call.image = [shape |-> <<2, 2>>, data |-> <<5, 6, 7, 8>>]
                => call.ret = [shape |-> <<2, 2>>, data |-> <<6, 8, 5, 7>>]

C3_Witness ==
    /\ call.image = [shape |-> <<2, 2>>, data |-> <<5, 6, 7, 8>>]
    /\ call.rotate_state = 1 /\ call.flip_state = 0
    /\ call.ret = [shape |-> <<2, 2>>, data |-> <<6, 8, 5, 7>>]

\* C5 as stated: called with rotate_state outside 0..3 or flip_state outside
\* 0..1, _flip_and_rotate signals an invalid argument and returns no array.
C5_Original == (Called /\ ~InDomain) => ~call.ok

\* C5: called with rotate_state outside 0..3 or flip_state outside 0..1 on an
\* array of at least 2 dimensions, _flip_and_rotate validates nothing and
\* signals nothing: it returns the array turned rotate_state mod 4 times and
\* mirrored only when flip_state = 1.
C5_OutOfDomainAccepted ==
    (Called /\ ~InDomain /\ Len(call.image.shape) >= 2) =>
        /\ call.ok
        /\ call.ret = Reference(call.image, call.rotate_state % 4,
                                IF call.flip_state = 1 THEN 1 ELSE 0)

C5_Witness ==
    /\ call.image = [shape |-> <<2, 2>>, data |-> <<1, 2, 3, 4>>]
    /\ call.rotate_state = 5 /\ call.flip_state = 2
    /\ call.ok
    /\ call.ret = [shape |-> <<2, 2>>, data |-> <<2, 4, 1, 3>>]

\* C6: the array _flip_and_rotate returns shares no storage with its
\* argument: a later write to an element of the result leaves the argument
\* as it was, a later write to the argument leaves the result as it was, and
\* for (0, 0) the result's content equals the argument's.
C6_NonAliasing ==
    /\ (Called /\ call.ok) => y.buf # x.buf
    /\ op = "write_output" => Content(heap, x) = call.image
    /\ op = "write_input" => Content(heap, y) = call.ret
    /\ (Called /\ call.ok /\ call.rotate_state = 0 /\ call.flip_state = 0)
          => call.ret = call.image

C6_Witness ==
    /\ op = "write_output"
    /\ x.strides # CStrides(x.shape)
    /\ call.rotate_state = 0 /\ call.flip_state = 0
    /\ Content(heap, y) # call.ret
    /\ Content(heap, x) = call.image
    /\ Len(call.image.shape) = 3

\* C7: four successive calls with rotate_state = 1, flip_state = 0, each
\* applied to the previous result, return the initial array, in shape and in
\* every element.
C7_FourFoldIdentity ==
    (trail.n = 4 /\ trail.rotate_state = 1 /\ trail.flip_state = 0 /\ call.ok)
        => Content(heap, y) = trail.orig

C7_Witness ==
    /\ trail.n = 4 /\ trail.rotate_state = 1 /\ trail.flip_state = 0
    /\ trail.orig.shape = <<2, 3>>
    /\ call.image # trail.orig
    /\ Content(heap, y) = trail.orig

\* C8: two successive calls with rotate_state = 0, flip_state = 1, the second
\* applied to the result of the first, return the initial array, in shape
\* and in every element.
C8_FlipInvolution ==
    (trail.n = 2 /\ trail.rotate_state = 0 /\ trail.flip_state = 1 /\ call.ok)
        => Content(heap, y) = trail.orig

C8_Witness ==
    /\ trail.n = 2 /\ trail.rotate_state = 0 /\ trail.flip_state = 1
    /\ trail.orig.shape = <<2, 3>>
    /\ call.image # trail.orig
    /\ Content(heap, y) = trail.orig

\* the number of elements of a sequence equal to v
Occurrences(seq, v) == Cardinality({i \in 1..Len(seq) : seq[i] = v})

\* C11: for an argument whose last two axes have lengths (H, W),
\* _flip_and_rotate returns an array whose last two axes have lengths (W, H)
\* when rotate_state is 1 or 3 and (H, W) when it is 0 or 2, whatever
\* flip_state is; the leading axis lengths and the number of elements are
\* those of the argument, and the result holds the same multiset of values.
C11_OutputShape ==
    (Called /\ InDomain /\ Len(call.image.shape) >= 2) =>
        LET n == Len(call.image.shape)
            H == call.image.shape[n - 1]
            W == call.image.shape[n]
        IN  /\ call.ok
            /\ Len(call.ret.shape) = n
            /\ call.rotate_state \in {1, 3} =>
                  call.ret.shape[n - 1] = W /\ call.ret.shape[n] = H
            /\ call.rotate_state \in {0, 2} =>
                  call.ret.shape[n - 1] = H /\ call.ret.shape[n] = W
            /\ \A i \in 1..(n - 2) : call.ret.shape[i] = call.image.shape[i]
            /\ Len(call.ret.data) = Len(call.image.data)
            /\ Len(call.ret.data) = Size(call.ret.shape)
            /\ \A i \in 1..Len(call.image.data) :
                  Occurrences(call.ret.data, call.image.data[i])
                      = Occurrences(call.image.data, call.image.data[i])

C11_Witness ==
    /\ Called /\ call.ok
    /\ call.rotate_state = 3 /\ call.flip_state = 1
    /\ Len(call.image.shape) = 3
    /\ call.image.shape[2] = 2 /\ call.image.shape[3] = 3
    /\ call.ret.shape = <<call.image.shape[1], 3, 2>>
    /\ call.ret.data # call.image.data

Augmented == op = "augment"

\* the last two axis lengths of patch and target differ
SpatialMismatch ==
    /\ ndim(patch) >= 2 /\ ndim(target) >= 2
    /\ \/ patch.shape[ndim(patch)] # target.shape[ndim(target)]
       \/ patch.shape[ndim(patch) - 1] # target.shape[ndim(target) - 1]

\* C1: one call augment_batch(patch, target, seed) transforms both arrays
\* with one and the same (rotate_state, flip_state): the first array returned
\* is the patch so transformed, the second the target so transformed, and
\* when one array of pairwise distinct values is passed as both, the two
\* arrays returned are equal element by element.
C1_JointConsistency ==
    (Augmented /\ aug.ok) =>
        /\ aug.first = Reference(Content(heap, patch),
                                 aug.rotate_state, aug.flip_state)
        /\ aug.second = Reference(Content(heap, target),
                                  aug.rotate_state, aug.flip_state)
        /\ target = patch => aug.first = aug.second

C1_Witness ==
    /\ Augmented /\ aug.ok
    /\ target = patch
    /\ ndim(patch) = 3
    /\ aug.rotate_state = 3 /\ aug.flip_state = 1
    /\ aug.first = aug.second
    /\ aug.first # Content(heap, patch)

\* C2: all calls with one seed, however many, in whatever order and with
\* calls of other seeds in between, draw the same (rotate_state, flip_state)
\* and return the same arrays (or fail alike).
C2_Determinism ==
    \A i, j \in 1..Len(calls) :
        calls[i].seed = calls[j].seed => calls[i] = calls[j]

C2_Witness ==
    /\ Len(calls) = 3
    /\ calls[1].seed = calls[3].seed
    /\ calls[2].seed # calls[1].seed
    /\ calls[1].ok /\ calls[2].ok
    /\ calls[2].rotate_state # calls[1].rotate_state
    /\ calls[3] = calls[1]

\* C4 as stated: called with a patch and a target whose last two axes differ
\* in length, augment_batch signals an invalid argument and returns nothing.
C4_Original == (Augmented /\ SpatialMismatch) => ~aug.ok

\* C4: called with a patch and a target (of at least 2 dimensions each)
\* whose last two axes differ in length, and a seed that is not negative,
\* augment_batch compares no shapes and signals nothing: it returns both
\* arrays, each transformed with the one (rotate_state, flip_state) drawn.
C4_MismatchAccepted ==
    (Augmented /\ SpatialMismatch /\ aug.seed >= 0) =>
        /\ aug.ok
        /\ aug.first = Reference(Content(heap, patch),
                                 aug.rotate_state, aug.flip_state)
        /\ aug.second = Reference(Content(heap, target),
                                  aug.rotate_state, aug.flip_state)

C4_Witness ==
    /\ Augmented /\ SpatialMismatch /\ aug.ok
    /\ patch.shape = <<2, 2>> /\ target.shape = <<2, 3>>
    /\ aug.rotate_state = 1
    /\ aug.first.shape = <<2, 2>> /\ aug.second.shape = <<3, 2>>

\* C10: whenever augment_batch draws (every seed that is not negative), the
\* rotate_state drawn is in 0..3 and the flip_state in 0..1, so the primitive
\* is only ever invoked by augment_batch inside its domain.
C10_DrawnStateValid ==
    /\ (Augmented /\ aug.seed >= 0) => aug.drawn
    /\ aug.drawn => aug.rotate_state \in 0..3 /\ aug.flip_state \in 0..1
    /\ \A i \in 1..Len(calls) :
          calls[i].drawn =>
              calls[i].rotate_state \in 0..3 /\ calls[i].flip_state \in 0..1

C10_Witness ==
    /\ Augmented /\ aug.drawn
    /\ aug.rotate_state = 3 /\ aug.flip_state = 1

====
